---- MODULE Spec2Model ----
(***************************************************************************)
(* LuthierGram: the local persistence layer (a Dexie database with the     *)
(* stores builds, photos, postContents, contentTemplates, calendarEvents)  *)
(* and the repository operations written on top of it.                     *)
(*                                                                         *)
(* Spec             one caller at a time over the builds and photos        *)
(*                  repositories: every action is one whole handler.       *)
(* SnapshotSpec     the same with templates, calendar events and the       *)
(*                  export / clear / import utilities.                     *)
(* BuildFilterSpec  buildOperations.filter over builds with a style and a  *)
(*                  client name.                                           *)
(* PhotoFilterSpec  photoOperations.filter over photos with a timestamp    *)
(*                  and a posted flag.                                     *)
(* ConcSpec         several callers: every action is one awaited store     *)
(*                  request of a handler (or one whole transaction), so    *)
(*                  handlers interleave at their awaits.                   *)
(***************************************************************************)
EXTENDS Integers, Sequences, FiniteSets, TLC

VARIABLES db, now, issued, trip, callers, calls, selectedPhotos, photoSelection

vars == <<db, now, issued, trip, callers, calls, selectedPhotos, photoSelection>>

(***************************************************************************)
(* Bounds and input sets                                                   *)
(***************************************************************************)
\* longest build.photos list the model lets a handler produce
MaxPhotos == 2
\* the clock (new Date()) runs from 0 to MaxTime
MaxTime == 1
\* the number of handler calls the concurrent callers make in one run
MaxCalls == 3
\* photo timestamps run from 1 to MaxTimestamp
MaxTimestamp == 3
\* calendar dates, in milliseconds, run from 0 to MaxDate
MaxDate == 5

BuildIds == {"b1", "b2"}
PhotoIds == {"p1", "p2"}
TemplateIds == {"t1"}
EventIds == {"e1"}
WoodTypes == {"Maple", "Oak"}
Callers == {"c1", "c2"}

\* key order of the stores (IndexedDB returns records in primary-key order)
IdOrder == <<"b1", "b2", "e1", "e2", "e3", "p1", "p2", "t1">>

\* Photo.buildId is optional: Absent stands for a missing / undefined buildId
Absent == "absent"

(***************************************************************************)
(* Records                                                                 *)
(***************************************************************************)
Photo(id, buildId) == [id |-> id, buildId |-> buildId]

Build(id, woodType, photos, createdAt, updatedAt) ==
    [id |-> id, woodType |-> woodType, photos |-> photos,
     createdAt |-> createdAt, updatedAt |-> updatedAt]

ContentTemplate(id, stage) == [id |-> id, stage |-> stage]

CalendarEvent(id, date) == [id |-> id, date |-> date]

(***************************************************************************)
(* Dexie tables: a table is a function from the keys stored to records     *)
(***************************************************************************)
EmptyTable == [k \in {} |-> k]

Has(t, k) == k \in DOMAIN t

\* Table.get: the record, or undefined (the empty set)
Get(t, k) == IF Has(t, k) THEN {t[k]} ELSE {}

TheOne(S) == CHOOSE x \in S : TRUE

\* the object spread / Dexie's application of a change set
Merge(rec, changes) ==
    [f \in DOMAIN rec \cup DOMAIN changes |->
        IF f \in DOMAIN changes THEN changes[f] ELSE rec[f]]

\* Table.update(key, changes): no record with that key, nothing happens
Update(t, k, changes) ==
    IF Has(t, k) THEN [t EXCEPT ![k] = Merge(@, changes)] ELSE t

\* Table.delete(key)
Delete(t, k) == [x \in DOMAIN t \ {k} |-> t[x]]

\* Table.where(field).equals(v): the keys of the matching records
WhereEquals(t, field, v) == {k \in DOMAIN t : t[k][field] = v}

\* Collection.modify(changes)
Modify(t, keys, changes) ==
    [k \in DOMAIN t |-> IF k \in keys THEN Merge(t[k], changes) ELSE t[k]]

\* Table.add(record): the key is the record's id
Put(t, rec) ==
    [k \in DOMAIN t \cup {rec.id} |-> IF k = rec.id THEN rec ELSE t[k]]

RECURSIVE InOrder(_, _)
InOrder(keys, i) ==
    IF i > Len(IdOrder) THEN <<>>
    ELSE IF IdOrder[i] \in keys THEN <<IdOrder[i]>> \o InOrder(keys, i + 1)
    ELSE InOrder(keys, i + 1)

\* Table.toArray() / Collection.toArray(): the records in key order
ToArray(t, keys) ==
    LET ks == InOrder(keys \cap DOMAIN t, 1)
    IN  [i \in 1..Len(ks) |-> t[ks[i]]]

Range(s) == {s[i] : i \in 1..Len(s)}

\* the store can add the record: it has a key, and the key is not stored
CanAdd(t, r) == "id" \in DOMAIN r /\ ~Has(t, r.id)

\* bulkAdd that puts every record, replacing the record stored under its key
RECURSIVE BulkAdd_Overwrite(_, _)
BulkAdd_Overwrite(t, recs) ==
    IF recs = <<>> THEN [table |-> t, ok |-> TRUE]
    ELSE LET r == Head(recs)
         IN  BulkAdd_Overwrite(IF "id" \in DOMAIN r THEN Put(t, r) ELSE t, Tail(recs))

\* Table.bulkAdd(records): a record without a key, or whose key is already
\* stored (or was added earlier in the same call), is refused and the call
\* rejects; the others are added
RECURSIVE BulkAdd(_, _)
BulkAdd(t, recs) ==
    IF recs = <<>> THEN [table |-> t, ok |-> TRUE]
    ELSE LET r == Head(recs)
             rest == BulkAdd(IF CanAdd(t, r) THEN Put(t, r) ELSE t, Tail(recs))
         IN  [table |-> rest.table, ok |-> rest.ok /\ CanAdd(t, r)]

EmptyDb ==
    [builds |-> EmptyTable, photos |-> EmptyTable, postContents |-> EmptyTable,
     contentTemplates |-> EmptyTable, calendarEvents |-> EmptyTable]

PhotoListIds(photos) == {photos[i].id : i \in 1..Len(photos)}

\* Array.filter(p => p.id !== photoId)
RECURSIVE WithoutPhoto(_, _)
WithoutPhoto(photos, photoId) ==
    IF photos = <<>> THEN <<>>
    ELSE IF Head(photos).id = photoId THEN WithoutPhoto(Tail(photos), photoId)
    ELSE <<Head(photos)>> \o WithoutPhoto(Tail(photos), photoId)

(***************************************************************************)
(* Handlers that await several store requests.  A call is a record holding *)
(* the handler's arguments, its locals and the line of the request it      *)
(* awaits next; a step runs that one request and the synchronous code up   *)
(* to the next await.  Every request outside db.transaction is a           *)
(* transaction of its own.                                                 *)
(***************************************************************************)
Idle == [op |-> "idle"]

\* JavaScript truthiness of an optional string
Truthy(buildId) == buildId # Absent /\ buildId # ""

AssignToBuildCall(photoId, buildId) ==
    [op |-> "assignToBuild", pc |-> "L177", photoId |-> photoId,
     buildId |-> buildId, build |-> {}, photo |-> {}]

AssignToBuildStep(c, d, t) ==
    CASE c.pc = "L177" ->
           [c |-> [c EXCEPT !.pc = "L180"],
            db |-> [d EXCEPT !.photos = Update(@, c.photoId, [buildId |-> c.buildId])]]
      [] c.pc = "L180" ->
           LET build == Get(d.builds, c.buildId)
           IN  IF build # {}
               THEN [c |-> [c EXCEPT !.pc = "L182", !.build = build], db |-> d]
               ELSE [c |-> Idle, db |-> d]
      [] c.pc = "L182" ->
           LET photo == Get(d.photos, c.photoId)
           IN  IF photo # {}
               THEN [c |-> [c EXCEPT !.pc = "L185", !.photo = photo], db |-> d]
               ELSE [c |-> Idle, db |-> d]
      [] c.pc = "L185" ->
           LET updatedPhotos == Append(TheOne(c.build).photos, TheOne(c.photo))
           IN  [c |-> Idle,
                db |-> [d EXCEPT !.builds = Update(@, c.buildId,
                           [photos |-> updatedPhotos, updatedAt |-> t])]]

UnassignFromBuildCall(photoId) ==
    [op |-> "unassignFromBuild", pc |-> "L195", photoId |-> photoId,
     buildId |-> Absent, build |-> {}]

\* unassignFromBuild guarded by if (photo) alone
UnassignFromBuildStep_AnyBuildId(c, d, t) ==
    CASE c.pc = "L195" ->
           LET photo == Get(d.photos, c.photoId)
           IN  IF photo # {}
               THEN [c |-> [c EXCEPT !.pc = "L199", !.buildId = TheOne(photo).buildId],
                     db |-> d]
               ELSE [c |-> Idle, db |-> d]
      [] c.pc = "L199" ->
           [c |-> [c EXCEPT !.pc = "L202"],
            db |-> [d EXCEPT !.photos = Update(@, c.photoId, [buildId |-> Absent])]]
      [] c.pc = "L202" ->
           LET build == Get(d.builds, c.buildId)
           IN  IF build # {}
               THEN [c |-> [c EXCEPT !.pc = "L205", !.build = build], db |-> d]
               ELSE [c |-> Idle, db |-> d]
      [] c.pc = "L205" ->
           LET updatedPhotos == WithoutPhoto(TheOne(c.build).photos, c.photoId)
           IN  [c |-> Idle,
                db |-> [d EXCEPT !.builds = Update(@, c.buildId,
                           [photos |-> updatedPhotos, updatedAt |-> t])]]

\* photoOperations.unassignFromBuild, one awaited request per step
UnassignFromBuildStep(c, d, t) ==
    CASE c.pc = "L195" ->
           LET photo == Get(d.photos, c.photoId)
           IN  IF photo # {} /\ Truthy(TheOne(photo).buildId)
               THEN [c |-> [c EXCEPT !.pc = "L199", !.buildId = TheOne(photo).buildId],
                     db |-> d]
               ELSE [c |-> Idle, db |-> d]
      [] c.pc = "L199" ->
           [c |-> [c EXCEPT !.pc = "L202"],
            db |-> [d EXCEPT !.photos = Update(@, c.photoId, [buildId |-> Absent])]]
      [] c.pc = "L202" ->
           LET build == Get(d.builds, c.buildId)
           IN  IF build # {}
               THEN [c |-> [c EXCEPT !.pc = "L205", !.build = build], db |-> d]
               ELSE [c |-> Idle, db |-> d]
      [] c.pc = "L205" ->
           LET updatedPhotos == WithoutPhoto(TheOne(c.build).photos, c.photoId)
           IN  [c |-> Idle,
                db |-> [d EXCEPT !.builds = Update(@, c.buildId,
                           [photos |-> updatedPhotos, updatedAt |-> t])]]

PhotoDeleteCall(photoId) ==
    [op |-> "photoDelete", pc |-> "L241", photoId |-> photoId,
     buildId |-> Absent, build |-> {}]

PhotoDeleteStep(c, d, t) ==
    CASE c.pc = "L241" ->
           LET photo == Get(d.photos, c.photoId)
           IN  IF photo # {} /\ Truthy(TheOne(photo).buildId)
               THEN [c |-> [c EXCEPT !.pc = "L244", !.buildId = TheOne(photo).buildId],
                     db |-> d]
               ELSE [c |-> [c EXCEPT !.pc = "L254"], db |-> d]
      [] c.pc = "L244" ->
           LET build == Get(d.builds, c.buildId)
           IN  IF build # {}
               THEN [c |-> [c EXCEPT !.pc = "L247", !.build = build], db |-> d]
               ELSE [c |-> [c EXCEPT !.pc = "L254"], db |-> d]
      [] c.pc = "L247" ->
           LET updatedPhotos == WithoutPhoto(TheOne(c.build).photos, c.photoId)
           IN  [c |-> [c EXCEPT !.pc = "L254"],
                db |-> [d EXCEPT !.builds = Update(@, c.buildId,
                           [photos |-> updatedPhotos, updatedAt |-> t])]]
      [] c.pc = "L254" ->
           [c |-> Idle, db |-> [d EXCEPT !.photos = Delete(@, c.photoId)]]

\* the changes buildOperations.delete passes to modify(): the empty object
DetachChanges == [f \in {} |-> f]

BuildDeleteCall(id) == [op |-> "buildDelete", pc |-> "L114", id |-> id]

BuildDeleteStep(c, d, t) ==
    CASE c.pc = "L114" ->
           [c |-> [c EXCEPT !.pc = "L115"],
            db |-> [d EXCEPT !.photos =
                       Modify(@, WhereEquals(@, "buildId", c.id), DetachChanges)]]
      [] c.pc = "L115" ->
           [c |-> Idle, db |-> [d EXCEPT !.builds = Delete(@, c.id)]]

RECURSIVE UpdateAll(_, _, _)
UpdateAll(photos, photoIds, buildId) ==
    IF photoIds = <<>> THEN photos
    ELSE UpdateAll(Update(photos, Head(photoIds), [buildId |-> buildId]),
                   Tail(photoIds), buildId)

BulkAssignToBuildDb(d, photoIds, buildId, t) ==
    LET d1 == [d EXCEPT !.photos = UpdateAll(@, photoIds, buildId)]
        build == Get(d1.builds, buildId)
    IN  IF build # {}
        THEN LET photos == ToArray(d1.photos, Range(photoIds))
                 updatedPhotos == TheOne(build).photos \o photos
             IN  [d1 EXCEPT !.builds = Update(@, buildId,
                     [photos |-> updatedPhotos, updatedAt |-> t])]
        ELSE d1

BulkAssignToBuildCall(photoIds, buildId) ==
    [op |-> "bulkAssignToBuild", pc |-> "L215", photoIds |-> photoIds,
     buildId |-> buildId]

\* the whole db.transaction commits as one
BulkAssignToBuildStep(c, d, t) ==
    [c |-> Idle, db |-> BulkAssignToBuildDb(d, c.photoIds, c.buildId, t)]

ClearAllDb(d) ==
    [d EXCEPT !.builds = EmptyTable, !.photos = EmptyTable,
              !.postContents = EmptyTable, !.contentTemplates = EmptyTable,
              !.calendarEvents = EmptyTable]

ClearAllCall == [op |-> "clearAll", pc |-> "L388"]

\* clearAll with every clear() a transaction of its own
ClearAllStep_NoTransaction(c, d, t) ==
    CASE c.pc = "L388" ->
           [c |-> [c EXCEPT !.pc = "L390"], db |-> [d EXCEPT !.builds = EmptyTable]]
      [] c.pc = "L390" ->
           [c |-> [c EXCEPT !.pc = "L391"], db |-> [d EXCEPT !.photos = EmptyTable]]
      [] c.pc = "L391" ->
           [c |-> [c EXCEPT !.pc = "L392"], db |-> [d EXCEPT !.postContents = EmptyTable]]
      [] c.pc = "L392" ->
           [c |-> [c EXCEPT !.pc = "L393"],
            db |-> [d EXCEPT !.contentTemplates = EmptyTable]]
      [] c.pc = "L393" ->
           [c |-> Idle, db |-> [d EXCEPT !.calendarEvents = EmptyTable]]

\* the whole db.transaction over the five stores commits as one
ClearAllStep(c, d, t) == [c |-> Idle, db |-> ClearAllDb(d)]

StepOf(c, d, t) ==
    CASE c.op = "assignToBuild" -> AssignToBuildStep(c, d, t)
      [] c.op = "clearAll" -> ClearAllStep(c, d, t)
      [] c.op = "bulkAssignToBuild" -> BulkAssignToBuildStep(c, d, t)
      [] c.op = "unassignFromBuild" -> UnassignFromBuildStep(c, d, t)
      [] c.op = "photoDelete" -> PhotoDeleteStep(c, d, t)
      [] c.op = "buildDelete" -> BuildDeleteStep(c, d, t)

\* a handler run from its call to its return with no other caller in between
RECURSIVE Complete(_, _, _)
Complete(c, d, t) ==
    IF c.op = "idle" THEN d
    ELSE LET r == StepOf(c, d, t) IN Complete(r.c, r.db, t)

\* how the promise of a call settles for its caller: it rejects where a request
\* rejects or the code throws.  Table.update, get and delete and
\* Collection.modify resolve whether or not a record matched, and none of these
\* handlers has a throw, so a call that has run to its end has resolved
RECURSIVE Rejects(_, _, _)
Rejects(c, d, t) ==
    IF c.op = "idle" THEN FALSE
    ELSE LET r == StepOf(c, d, t) IN Rejects(r.c, r.db, t)

(***************************************************************************)
(* Handlers that are one store request or one transaction                  *)
(***************************************************************************)
\* create that stores the new build in place of the builds stored
BuildCreateDb_Replace(d, id, buildData, t) ==
    [d EXCEPT !.builds = Put(EmptyTable, Merge(buildData,
        [id |-> id, photos |-> <<>>, createdAt |-> t, updatedAt |-> t]))]

BuildCreateDb(d, id, buildData, t) ==
    [d EXCEPT !.builds = Put(@, Merge(buildData,
        [id |-> id, photos |-> <<>>, createdAt |-> t, updatedAt |-> t]))]

\* update that writes an empty photos list along with the updates
BuildUpdateDb_ResetsPhotos(d, id, updates, t) ==
    [d EXCEPT !.builds =
        Update(@, id, Merge(updates, [updatedAt |-> t, photos |-> <<>>]))]

BuildUpdateDb(d, id, updates, t) ==
    [d EXCEPT !.builds = Update(@, id, Merge(updates, [updatedAt |-> t]))]

\* buildOperations.update drops the number of records Table.update changed
BuildUpdateRejects(d, id, updates) == FALSE

\* photoOperations.update drops the number of records Table.update changed
PhotoUpdateRejects(d, photoId, updates) == FALSE

\* addFromGoogle with bulkPut: a batch record replaces the record stored under
\* its id
AddFromGoogleDb_BulkPut(d, googlePhotos) ==
    [d EXCEPT !.photos = BulkAdd_Overwrite(@, googlePhotos).table]

\* photoOperations.addFromGoogle: db.photos.bulkAdd(googlePhotos)
AddFromGoogleDb(d, googlePhotos) ==
    [d EXCEPT !.photos = BulkAdd(@, googlePhotos).table]

PhotoUpdateDb(d, photoId, updates) ==
    [d EXCEPT !.photos = Update(@, photoId, updates)]

TemplateCreateDb(d, id, template) ==
    [d EXCEPT !.contentTemplates = Put(@, Merge(template, [id |-> id]))]

TemplateDeleteDb(d, id) == [d EXCEPT !.contentTemplates = Delete(@, id)]

CalendarCreateDb(d, id, event) ==
    [d EXCEPT !.calendarEvents = Put(@, Merge(event, [id |-> id]))]

CalendarDeleteDb(d, id) == [d EXCEPT !.calendarEvents = Delete(@, id)]

\* the milliseconds of a day
DayLength == 3

\* new Date(date).setHours(0, 0, 0, 0): the first millisecond of date's day
StartOfDay(date) == date - (date % DayLength)

\* new Date(date).setHours(23, 59, 59, 999): the last millisecond of date's day
EndOfDay(date) == StartOfDay(date) + (DayLength - 1)

\* where(field).between(lower, upper, includeLower, includeUpper)
Between(t, field, lower, upper, includeLower, includeUpper) ==
    {k \in DOMAIN t :
        /\ IF includeLower THEN lower <= t[k][field] ELSE lower < t[k][field]
        /\ IF includeUpper THEN t[k][field] <= upper ELSE t[k][field] < upper}

\* Collection.toArray() of a collection on the date index: by date, then by key
RECURSIVE InDateOrder(_, _, _)
InDateOrder(t, keys, date) ==
    IF date > MaxDate THEN <<>>
    ELSE ToArray(t, {k \in keys : t[k].date = date}) \o InDateOrder(t, keys, date + 1)

\* getByDateRange that leaves the end of the range out
GetByDateRangeOf_ExclusiveEnd(d, start, end) ==
    InDateOrder(d.calendarEvents,
                Between(d.calendarEvents, "date", start, end, TRUE, FALSE), 0)

\* calendarOperations.getByDateRange
GetByDateRangeOf(d, start, end) ==
    InDateOrder(d.calendarEvents,
                Between(d.calendarEvents, "date", start, end, TRUE, TRUE), 0)

\* calendarOperations.getByDate
GetByDateOf(d, date) ==
    LET startOfDay == StartOfDay(date)
        endOfDay == EndOfDay(date)
    IN  InDateOrder(d.calendarEvents,
                    Between(d.calendarEvents, "date", startOfDay, endOfDay, TRUE, TRUE), 0)

ReadBuilds(d) == ToArray(d.builds, DOMAIN d.builds)
ReadPhotos(d) == ToArray(d.photos, DOMAIN d.photos)
ReadTemplates(d) == ToArray(d.contentTemplates, DOMAIN d.contentTemplates)
ReadEvents(d) == ToArray(d.calendarEvents, DOMAIN d.calendarEvents)

\* photoOperations.getByBuildId: the photos the buildId index holds under buildId
GetByBuildId(d, buildId) ==
    ToArray(d.photos, WhereEquals(d.photos, "buildId", buildId))

\* getUnassigned that returns every stored photo
GetUnassigned_All(d) == ToArray(d.photos, DOMAIN d.photos)

\* photoOperations.getUnassigned: filter(photo => !photo.buildId)
GetUnassigned(d) ==
    ToArray(d.photos, {p \in DOMAIN d.photos : ~Truthy(d.photos[p].buildId)})

\* a property of a record, undefined (Absent) when the record has none
Field(rec, f) == IF f \in DOMAIN rec THEN rec[f] ELSE Absent

\* if (filters.x): the criterion is supplied, and not the empty string
Supplied(filters, f) == f \in DOMAIN filters /\ Truthy(filters[f])

\* collection.filter(record => record[f] === filters[f]) when filters[f] is truthy
FilterEquals(t, keys, filters, f) ==
    IF Supplied(filters, f)
    THEN {k \in keys : Field(t[k], f) = filters[f]}
    ELSE keys

\* filter that does not look at the clientName criterion
BuildFilterOf_NoClientName(d, filters) ==
    LET byWood == FilterEquals(d.builds, DOMAIN d.builds, filters, "woodType")
        byStyle == FilterEquals(d.builds, byWood, filters, "style")
    IN  ToArray(d.builds, byStyle)

\* buildOperations.filter
BuildFilterOf(d, filters) ==
    LET byWood == FilterEquals(d.builds, DOMAIN d.builds, filters, "woodType")
        byStyle == FilterEquals(d.builds, byWood, filters, "style")
        byClient == FilterEquals(d.builds, byStyle, filters, "clientName")
    IN  ToArray(d.builds, byClient)

\* filter whose date range leaves its end out
PhotoFilterOf_ExclusiveEnd(d, filters) ==
    LET byBuild == FilterEquals(d.photos, DOMAIN d.photos, filters, "buildId")
        byAssigned ==
            IF "isAssigned" \in DOMAIN filters
            THEN IF filters.isAssigned
                 THEN {k \in byBuild : d.photos[k].buildId # Absent}
                 ELSE {k \in byBuild : d.photos[k].buildId = Absent}
            ELSE byBuild
        byDate ==
            IF "dateRange" \in DOMAIN filters
            THEN {k \in byAssigned :
                    /\ d.photos[k].timestamp >= filters.dateRange.start
                    /\ d.photos[k].timestamp < filters.dateRange.end}
            ELSE byAssigned
        byPosted ==
            IF "posted" \in DOMAIN filters
            THEN {k \in byDate : d.photos[k].posted = filters.posted}
            ELSE byDate
    IN  ToArray(d.photos, byPosted)

\* photoOperations.filter
PhotoFilterOf(d, filters) ==
    LET byBuild == FilterEquals(d.photos, DOMAIN d.photos, filters, "buildId")
        byAssigned ==
            IF "isAssigned" \in DOMAIN filters
            THEN IF filters.isAssigned
                 THEN {k \in byBuild : d.photos[k].buildId # Absent}
                 ELSE {k \in byBuild : d.photos[k].buildId = Absent}
            ELSE byBuild
        byDate ==
            IF "dateRange" \in DOMAIN filters
            THEN {k \in byAssigned :
                    /\ d.photos[k].timestamp >= filters.dateRange.start
                    /\ d.photos[k].timestamp <= filters.dateRange.end}
            ELSE byAssigned
        byPosted ==
            IF "posted" \in DOMAIN filters
            THEN {k \in byDate : d.photos[k].posted = filters.posted}
            ELSE byDate
    IN  ToArray(d.photos, byPosted)

\* Table.count()
Count(t) == Cardinality(DOMAIN t)

\* where(field).above(''): the index on the field holds the records that have
\* the field, and the range above '' leaves the empty string out
WhereAboveEmpty(t, field) ==
    {k \in DOMAIN t : t[k][field] # Absent /\ t[k][field] # ""}

\* getStats that counts as assigned the photos naming a stored build
GetStats_StoredBuildsOnly(d) ==
    LET totalPhotos == Count(d.photos)
        assignedPhotos ==
            Cardinality({p \in DOMAIN d.photos : Has(d.builds, d.photos[p].buildId)})
    IN  [totalBuilds |-> Count(d.builds),
         totalPhotos |-> totalPhotos,
         assignedPhotos |-> assignedPhotos,
         unassignedPhotos |-> totalPhotos - assignedPhotos,
         scheduledPosts |-> Count(d.calendarEvents)]

\* dbUtils.getStats, its four counts taken from one state of the store
GetStats(d) ==
    LET totalBuilds == Count(d.builds)
        totalPhotos == Count(d.photos)
        assignedPhotos == Cardinality(WhereAboveEmpty(d.photos, "buildId"))
        scheduledPosts == Count(d.calendarEvents)
    IN  [totalBuilds |-> totalBuilds,
         totalPhotos |-> totalPhotos,
         assignedPhotos |-> assignedPhotos,
         unassignedPhotos |-> totalPhotos - assignedPhotos,
         scheduledPosts |-> scheduledPosts]

\* exportData with its four reads taken from one state of the store
ExportDataOf(d) ==
    [builds |-> ReadBuilds(d), photos |-> ReadPhotos(d),
     templates |-> ReadTemplates(d), events |-> ReadEvents(d)]

\* importData that leaves the events list out
ImportDataDb_NoEvents(d, data) ==
    LET b == BulkAdd(d.builds, data.builds)
        p == BulkAdd(d.photos, data.photos)
        tm == BulkAdd(d.contentTemplates, data.templates)
    IN  IF b.ok /\ p.ok /\ tm.ok
        THEN [d EXCEPT !.builds = b.table, !.photos = p.table,
                       !.contentTemplates = tm.table]
        ELSE d

\* importData: a bulkAdd that rejects aborts the transaction
ImportDataDb(d, data) ==
    LET b == BulkAdd(d.builds, data.builds)
        p == BulkAdd(d.photos, data.photos)
        tm == BulkAdd(d.contentTemplates, data.templates)
        e == BulkAdd(d.calendarEvents, data.events)
    IN  IF b.ok /\ p.ok /\ tm.ok /\ e.ok
        THEN [d EXCEPT !.builds = b.table, !.photos = p.table,
                       !.contentTemplates = tm.table, !.calendarEvents = e.table]
        ELSE d

\* importData's promise rejects when one of its bulkAdd calls does
ImportDataRejects(d, data) ==
    ~ /\ BulkAdd(d.builds, data.builds).ok
      /\ BulkAdd(d.photos, data.photos).ok
      /\ BulkAdd(d.contentTemplates, data.templates).ok
      /\ BulkAdd(d.calendarEvents, data.events).ok

(***************************************************************************)
(* State                                                                   *)
(*   db       the five stores                                              *)
(*   now      the clock read by new Date()                                 *)
(*   issued   the ids crypto.randomUUID() has returned, here or where an   *)
(*            imported bundle was made                                     *)
(*   callers  the handler each concurrent caller is in (ConcSpec)          *)
(*   calls    the number of calls the concurrent callers have made         *)
(*   selectedPhotos, photoSelection   the state of the home page          *)
(*   trip     history: the handler the single caller ran last, and for the *)
(*            round trips (assign then unassign; export, clear, import)    *)
(*            the store as it was when the trip began                      *)
(***************************************************************************)
NoTrip == [kind |-> "none"]

Init ==
    /\ db = EmptyDb
    /\ now = 0
    /\ issued = {}
    /\ trip = NoTrip
    /\ callers = [c \in Callers |-> Idle]
    /\ calls = 0
    /\ selectedPhotos = <<>>
    /\ photoSelection = {}

\* the model stops a handler that would grow a photos list past MaxPhotos
WithinBounds(d) == \A b \in DOMAIN d.builds : Len(d.builds[b].photos) <= MaxPhotos

\* the two sides of the build / photo cross-reference say the same in d
Agrees(builds, photos) ==
    \A b \in DOMAIN builds :
        {p \in DOMAIN photos : photos[p].buildId = b} = PhotoListIds(builds[b].photos)

\* history: the store disagreed with itself at some point of a running exportData
Observe(cs, d) ==
    [c \in Callers |->
        IF cs[c].op = "exportData" /\ cs[c].pending # <<>>
        THEN [cs[c] EXCEPT !.disagreed = @ \/ ~Agrees(d.builds, d.photos)]
        ELSE cs[c]]

\* one whole handler, or one transaction, takes the store to d
Commit(d) ==
    /\ WithinBounds(d)
    /\ db' = d
    /\ callers' = Observe(callers, d)
    /\ UNCHANGED calls

\* inputs
BuildDataInputs == {[woodType |-> w] : w \in WoodTypes}
BuildUpdateInputs == {[woodType |-> w] : w \in WoodTypes}
PhotoUpdateInputs ==
    {[buildId |-> b] : b \in BuildIds \cup {Absent}}
GoogleBatches ==
    {<<Photo(p, Absent)>> : p \in PhotoIds}
        \cup {<<Photo(p, Absent), Photo(q, Absent)>> : p, q \in PhotoIds}
PhotoIdLists == {<<p>> : p \in PhotoIds} \cup {<<p, q>> : p, q \in PhotoIds}
TemplateInputs == {[stage |-> "Planning"]}
EventInputs == {[date |-> 0]}
\* a bundle exported from another store
ForeignBundle ==
    [builds |-> <<Build("b2", "Oak", <<>>, 0, 0)>>,
     photos |-> <<Photo("p2", Absent)>>,
     templates |-> <<>>, events |-> <<>>]
\* a bundle with a photo that has lost its id
KeylessBundle ==
    [builds |-> <<Build("b1", "Maple", <<>>, 0, 0)>>,
     photos |-> <<[buildId |-> Absent]>>,
     templates |-> <<>>, events |-> <<>>]
ImportInputs ==
    {ForeignBundle, KeylessBundle} \cup
        (IF trip.kind \in {"exported", "cleared"} THEN {trip.snapshot} ELSE {})

Tick ==
    /\ now < MaxTime
    /\ now' = now + 1
    /\ UNCHANGED <<db, issued, trip, callers, calls, selectedPhotos, photoSelection>>

\* crypto.randomUUID(): a version 4 UUID, one no earlier call has returned
\* and no record carries; ids is the pool the model draws the value from
RandomUUID_Any(ids, used) == ids

RandomUUID(ids, used) == ids \ used

\* the ids of the records of the three stores whose ids buildOperations,
\* templateOperations and calendarOperations draw from crypto.randomUUID()
UuidKeys(d) ==
    DOMAIN d.builds \cup DOMAIN d.contentTemplates \cup DOMAIN d.calendarEvents

\* buildOperations.create; id is the value crypto.randomUUID() returns
BuildCreateOf(id, buildData) ==
    /\ Commit(BuildCreateDb(db, id, buildData, now))
    /\ issued' = issued \cup {id}
    /\ trip' = [kind |-> "created", id |-> id]
    /\ UNCHANGED <<now, selectedPhotos, photoSelection>>

BuildCreate ==
    \E id \in RandomUUID(BuildIds, issued \cup DOMAIN db.builds), buildData \in BuildDataInputs :
        BuildCreateOf(id, buildData)

\* buildOperations.update
BuildUpdateOf(id, updates) ==
    /\ Commit(BuildUpdateDb(db, id, updates, now))
    /\ trip' = [kind |-> "buildUpdated"]
    /\ UNCHANGED <<now, issued, selectedPhotos, photoSelection>>

BuildUpdate ==
    \E id \in BuildIds, updates \in BuildUpdateInputs : BuildUpdateOf(id, updates)

\* buildOperations.delete
BuildDelete(id) ==
    /\ Commit(Complete(BuildDeleteCall(id), db, now))
    /\ trip' = NoTrip
    /\ UNCHANGED <<now, issued, selectedPhotos, photoSelection>>

\* photoOperations.addFromGoogle
AddFromGoogleOf(googlePhotos) ==
    /\ Commit(AddFromGoogleDb(db, googlePhotos))
    /\ trip' = [kind |-> "added",
                refused |-> {r.id : r \in Range(googlePhotos)} \cap DOMAIN db.photos,
                added |-> {r.id : r \in Range(googlePhotos)} \ DOMAIN db.photos]
    /\ UNCHANGED <<now, issued, selectedPhotos, photoSelection>>

AddFromGoogle == \E googlePhotos \in GoogleBatches : AddFromGoogleOf(googlePhotos)

\* photoOperations.assignToBuild
AssignToBuild(photoId, buildId) ==
    /\ Commit(Complete(AssignToBuildCall(photoId, buildId), db, now))
    /\ trip' = IF Has(db.photos, photoId) /\ Has(db.builds, buildId)
               THEN IF db.photos[photoId].buildId = Absent
                    THEN [kind |-> "assigned", photoId |-> photoId,
                          buildId |-> buildId, before |-> db]
                    ELSE [kind |-> "reassigned", photoId |-> photoId,
                          buildId |-> buildId]
               ELSE NoTrip
    /\ UNCHANGED <<now, issued, selectedPhotos, photoSelection>>

\* photoOperations.unassignFromBuild
UnassignFromBuild(photoId) ==
    /\ Commit(Complete(UnassignFromBuildCall(photoId), db, now))
    /\ trip' = IF trip.kind = "assigned" /\ trip.photoId = photoId
               THEN [trip EXCEPT !.kind = "unassigned"]
               ELSE IF Has(db.photos, photoId) /\ Truthy(db.photos[photoId].buildId)
                    THEN NoTrip
                    ELSE [kind |-> "nothingToUnassign",
                          again |-> trip.kind = "unassigned" /\ trip.photoId = photoId]
    /\ UNCHANGED <<now, issued, selectedPhotos, photoSelection>>

\* photoOperations.bulkAssignToBuild
BulkAssignToBuild(photoIds, buildId) ==
    /\ Commit(Complete(BulkAssignToBuildCall(photoIds, buildId), db, now))
    /\ trip' = NoTrip
    /\ UNCHANGED <<now, issued, selectedPhotos, photoSelection>>

\* photoOperations.update
PhotoUpdateOf(photoId, updates) ==
    /\ Commit(PhotoUpdateDb(db, photoId, updates))
    /\ trip' = NoTrip
    /\ UNCHANGED <<now, issued, selectedPhotos, photoSelection>>

PhotoUpdate ==
    \E photoId \in PhotoIds, updates \in PhotoUpdateInputs :
        PhotoUpdateOf(photoId, updates)

\* photoOperations.delete
PhotoDelete(photoId) ==
    /\ Commit(Complete(PhotoDeleteCall(photoId), db, now))
    /\ trip' = NoTrip
    /\ UNCHANGED <<now, issued, selectedPhotos, photoSelection>>

\* templateOperations.create
TemplateCreate ==
    \E id \in RandomUUID(TemplateIds, issued \cup DOMAIN db.contentTemplates),
       template \in TemplateInputs :
        /\ Commit(TemplateCreateDb(db, id, template))
        /\ issued' = issued \cup {id}
        /\ trip' = NoTrip
        /\ UNCHANGED <<now, selectedPhotos, photoSelection>>

\* templateOperations.delete
TemplateDelete ==
    \E id \in TemplateIds :
        /\ Commit(TemplateDeleteDb(db, id))
        /\ trip' = NoTrip
        /\ UNCHANGED <<now, issued, selectedPhotos, photoSelection>>

\* calendarOperations.create; id is the value crypto.randomUUID() returns
CalendarCreateOf(id, event) ==
    /\ Commit(CalendarCreateDb(db, id, event))
    /\ issued' = issued \cup {id}
    /\ trip' = NoTrip
    /\ UNCHANGED <<now, selectedPhotos, photoSelection>>

CalendarCreate ==
    \E id \in RandomUUID(EventIds, issued \cup DOMAIN db.calendarEvents), event \in EventInputs :
        CalendarCreateOf(id, event)

\* calendarOperations.delete
CalendarDeleteOf(id) ==
    /\ Commit(CalendarDeleteDb(db, id))
    /\ trip' = NoTrip
    /\ UNCHANGED <<now, issued, selectedPhotos, photoSelection>>

CalendarDelete == \E id \in EventIds : CalendarDeleteOf(id)

\* dbUtils.clearAll
ClearAll ==
    /\ Commit(Complete(ClearAllCall, db, now))
    /\ trip' = IF trip.kind = "exported" THEN [trip EXCEPT !.kind = "cleared"]
               ELSE NoTrip
    /\ UNCHANGED <<now, issued, selectedPhotos, photoSelection>>

\* dbUtils.exportData, no other caller running
ExportData ==
    /\ trip' = [kind |-> "exported", snapshot |-> ExportDataOf(db), before |-> db]
    /\ UNCHANGED <<db, now, issued, callers, calls, selectedPhotos, photoSelection>>

\* dbUtils.importData
ImportDataOf(data) ==
    /\ Commit(ImportDataDb(db, data))
    /\ trip' = IF trip.kind = "cleared" /\ data = trip.snapshot
               THEN [trip EXCEPT !.kind = "imported"]
               ELSE IF ImportDataRejects(db, data)
                    THEN [kind |-> "importFailed",
                          builds |-> /\ data.builds # <<>>
                                     /\ BulkAdd(db.builds, data.builds).ok]
                    ELSE [kind |-> "importDone"]
    /\ issued' = issued \cup UuidKeys(db')
    /\ UNCHANGED <<now, selectedPhotos, photoSelection>>

ImportData == \E data \in ImportInputs : ImportDataOf(data)

\* the builds and photos repositories, one caller at a time
Next ==
    \/ Tick
    \/ BuildCreate
    \/ BuildUpdate
    \/ \E id \in BuildIds : BuildDelete(id)
    \/ AddFromGoogle
    \/ \E photoId \in PhotoIds, buildId \in BuildIds : AssignToBuild(photoId, buildId)
    \/ \E photoId \in PhotoIds : UnassignFromBuild(photoId)
    \/ \E photoIds \in PhotoIdLists, buildId \in BuildIds :
          BulkAssignToBuild(photoIds, buildId)
    \/ PhotoUpdate
    \/ \E photoId \in PhotoIds : PhotoDelete(photoId)
    \/ ClearAll
    \/ ImportData

Spec == Init /\ [][Next]_vars

\* the snapshot utilities over all the stores, one caller at a time
SnapshotNext ==
    \/ BuildCreate
    \/ \E id \in BuildIds : BuildDelete(id)
    \/ AddFromGoogle
    \/ \E photoId \in PhotoIds, buildId \in BuildIds : AssignToBuild(photoId, buildId)
    \/ \E photoId \in PhotoIds : UnassignFromBuild(photoId)
    \/ \E photoIds \in PhotoIdLists, buildId \in BuildIds :
          BulkAssignToBuild(photoIds, buildId)
    \/ \E photoId \in PhotoIds : PhotoDelete(photoId)
    \/ TemplateCreate
    \/ TemplateDelete
    \/ CalendarCreate
    \/ CalendarDelete
    \/ ClearAll
    \/ ExportData
    \/ ImportData

SnapshotSpec == Init /\ [][SnapshotNext]_vars

(***************************************************************************)
(* The filters of the builds repository, over builds created with a style  *)
(* and, for some, a client name                                            *)
(***************************************************************************)
StyledBuildData ==
    {[woodType |-> "Maple", style |-> "Classical"],
     [woodType |-> "Oak", style |-> "Classical", clientName |-> "Ann"],
     [woodType |-> "Maple", style |-> "Acoustic", clientName |-> "Ann"],
     [woodType |-> "Oak", style |-> "Acoustic", clientName |-> "Bob"]}

\* the criteria a caller passes: every one of them may be left out
Optional(f, values) == {[x \in {} |-> x]} \cup {[x \in {f} |-> v] : v \in values}

BuildFilters ==
    {Merge(Merge(w, st), cl) :
        w \in Optional("woodType", WoodTypes),
        st \in Optional("style", {"Classical", "Acoustic"}),
        cl \in Optional("clientName", {"Ann"})}

StyledBuildCreate ==
    \E id \in RandomUUID(BuildIds, issued \cup DOMAIN db.builds), buildData \in StyledBuildData :
        BuildCreateOf(id, buildData)

\* buildOperations.filter: a read; the caller gets the list
BuildFilter ==
    \E filters \in BuildFilters :
        /\ trip' = [kind |-> "buildFilter", filters |-> filters,
                    result |-> BuildFilterOf(db, filters)]
        /\ UNCHANGED <<db, now, issued, callers, calls, selectedPhotos, photoSelection>>

BuildFilterNext ==
    \/ Tick
    \/ StyledBuildCreate
    \/ \E id \in BuildIds : BuildDelete(id)
    \/ BuildFilter

BuildFilterSpec == Init /\ [][BuildFilterNext]_vars

(***************************************************************************)
(* The filter of the photos repository, over photos that carry the time    *)
(* they were taken and the posted flag                                     *)
(***************************************************************************)
Timestamps == 1..MaxTimestamp

\* the photo picker hands over photos that are not posted and not assigned
DatedPhoto(id, timestamp) ==
    Merge(Photo(id, Absent), [timestamp |-> timestamp, posted |-> FALSE])

DatedBatches == {<<DatedPhoto(p, ts)>> : p \in PhotoIds, ts \in Timestamps}

DatedPhotoUpdates == PhotoUpdateInputs \cup {[posted |-> TRUE]}

DateRanges ==
    {[start |-> 1, end |-> 2], [start |-> 2, end |-> MaxTimestamp]}

PhotoFilters ==
    {Merge(Merge(b, a), Merge(r, po)) :
        b \in Optional("buildId", {"b1"}),
        a \in Optional("isAssigned", BOOLEAN),
        r \in Optional("dateRange", DateRanges),
        po \in Optional("posted", BOOLEAN)}

DatedAddFromGoogle == \E googlePhotos \in DatedBatches : AddFromGoogleOf(googlePhotos)

DatedPhotoUpdate ==
    \E photoId \in PhotoIds, updates \in DatedPhotoUpdates :
        PhotoUpdateOf(photoId, updates)

\* photoOperations.filter: a read; the caller gets the list
PhotoFilter ==
    \E filters \in PhotoFilters :
        /\ trip' = [kind |-> "photoFilter", filters |-> filters,
                    result |-> PhotoFilterOf(db, filters)]
        /\ UNCHANGED <<db, now, issued, callers, calls, selectedPhotos, photoSelection>>

PhotoFilterNext ==
    \/ DatedAddFromGoogle
    \/ DatedPhotoUpdate
    \/ \E photoId \in PhotoIds : PhotoDelete(photoId)
    \/ PhotoFilter

PhotoFilterSpec == Init /\ [][PhotoFilterNext]_vars

(***************************************************************************)
(* Photos that are assigned to a build and then marked as posted           *)
(***************************************************************************)
\* photoOperations.update(photoId, {posted: true})
MarkPosted == \E photoId \in PhotoIds : PhotoUpdateOf(photoId, [posted |-> TRUE])

PostedNext ==
    \/ BuildCreate
    \/ DatedAddFromGoogle
    \/ MarkPosted
    \/ \E photoId \in PhotoIds, buildId \in BuildIds : AssignToBuild(photoId, buildId)
    \/ \E photoId \in PhotoIds : UnassignFromBuild(photoId)

PostedSpec == Init /\ [][PostedNext]_vars

(***************************************************************************)
(* Photos assigned and unassigned, the empty string among the build ids    *)
(* a caller passes to assignToBuild                                        *)
(***************************************************************************)
AssignedBuildIds == BuildIds \cup {""}

UnassignedNext ==
    \/ Tick
    \/ BuildCreate
    \/ AddFromGoogle
    \/ \E photoId \in PhotoIds, buildId \in AssignedBuildIds :
          AssignToBuild(photoId, buildId)
    \/ \E photoId \in PhotoIds : UnassignFromBuild(photoId)

UnassignedSpec == Init /\ [][UnassignedNext]_vars

(***************************************************************************)
(* The home page: the photos imported with the picker (selectedPhotos) and *)
(* the ids of those the user marked in the grid (photoSelection)           *)
(***************************************************************************)
MaxSelected == 4

\* the ids of the documents the Google picker hands over
PickedIds == {"g1", "g2", "g3"}

\* the batches onPhotosSelected is called with: the picked documents, each
\* converted to a Photo with the id of its document and no buildId
PickerBatches ==
    {<<Photo(p, Absent)>> : p \in PickedIds}
        \cup {<<Photo(p, Absent), Photo(q, Absent)>> : p, q \in PickedIds}

\* handlePhotosSelected: the photos of the batch whose id is not yet in the
\* list are appended to it
HandlePhotosSelected(photos) ==
    LET existingIds == PhotoListIds(selectedPhotos)
        Missing(p) == p.id \notin existingIds
        newPhotos == SelectSeq(photos, Missing)
    IN  /\ Len(selectedPhotos) + Len(newPhotos) <= MaxSelected
        /\ selectedPhotos' = selectedPhotos \o newPhotos
        /\ UNCHANGED <<db, now, issued, trip, callers, calls, photoSelection>>

\* handlePhotoSelect, called by the grid with one of the photos it shows
HandlePhotoSelect(photo) ==
    /\ photoSelection' = IF photo.id \in photoSelection
                         THEN photoSelection \ {photo.id}
                         ELSE photoSelection \cup {photo.id}
    /\ UNCHANGED <<db, now, issued, trip, callers, calls, selectedPhotos>>

\* clearSelectedPhotos, the Clear All button shown while the list is not empty
ClearSelectedPhotos ==
    /\ selectedPhotos # <<>>
    /\ selectedPhotos' = <<>>
    /\ photoSelection' = {}
    /\ UNCHANGED <<db, now, issued, trip, callers, calls>>

HomeNext ==
    \/ \E photos \in PickerBatches : HandlePhotosSelected(photos)
    \/ \E photo \in Range(selectedPhotos) : HandlePhotoSelect(photo)
    \/ ClearSelectedPhotos

HomeSpec == Init /\ [][HomeNext]_vars

(***************************************************************************)
(* The date queries of the calendar repository, over events on two days    *)
(***************************************************************************)
Dates == 0..MaxDate

DayEventIds == {"e1", "e2", "e3"}

DayEventInputs == {[date |-> date] : date \in Dates}

DayCalendarCreate ==
    \E id \in RandomUUID(DayEventIds, issued \cup DOMAIN db.calendarEvents),
       event \in DayEventInputs :
        CalendarCreateOf(id, event)

DayCalendarDelete == \E id \in DayEventIds : CalendarDeleteOf(id)

\* calendarOperations.getByDateRange: a read; the caller gets the list
GetByDateRange ==
    \E start \in Dates, end \in Dates :
        /\ trip' = [kind |-> "getByDateRange", start |-> start, end |-> end,
                    result |-> GetByDateRangeOf(db, start, end)]
        /\ UNCHANGED <<db, now, issued, callers, calls, selectedPhotos, photoSelection>>

\* calendarOperations.getByDate: a read; the caller gets the list
GetByDate ==
    \E date \in Dates :
        /\ trip' = [kind |-> "getByDate", date |-> date,
                    result |-> GetByDateOf(db, date)]
        /\ UNCHANGED <<db, now, issued, callers, calls, selectedPhotos, photoSelection>>

CalendarNext ==
    \/ DayCalendarCreate
    \/ DayCalendarDelete
    \/ GetByDateRange
    \/ GetByDate

CalendarSpec == Init /\ [][CalendarNext]_vars

(***************************************************************************)
(* Concurrent callers.  A caller that is idle calls a handler; the handler *)
(* then runs one awaited request at a time, and the requests of the other  *)
(* callers may run in between.                                             *)
(***************************************************************************)
\* one build and two unassigned photos: the store after create and addFromGoogle
SeededDb ==
    AddFromGoogleDb(BuildCreateDb(EmptyDb, "b1", [woodType |-> "Maple"], 0),
                    <<Photo("p1", Absent), Photo("p2", Absent)>>)

\* the four stores in the order exportData issues its requests
ExportStores == <<"builds", "photos", "templates", "events">>

ExportDataCall(d) ==
    [op |-> "exportData", pending |-> ExportStores,
     result |-> [builds |-> <<>>, photos |-> <<>>, templates |-> <<>>, events |-> <<>>],
     disagreed |-> ~Agrees(d.builds, d.photos)]

\* the next of the four toArray() requests of exportData's Promise.all: each is
\* a read transaction of its own, and they run in the order they were issued
ExportDataRead(c, d) ==
    LET store == Head(c.pending)
        rows == CASE store = "builds" -> ReadBuilds(d)
                  [] store = "photos" -> ReadPhotos(d)
                  [] store = "templates" -> ReadTemplates(d)
                  [] store = "events" -> ReadEvents(d)
    IN  [c EXCEPT !.pending = Tail(@), !.result[store] = rows]

\* history: the handlers the concurrent callers have called, in call order
Called(t) == IF t.kind = "called" THEN t.ops ELSE <<>>

Call(c, call) ==
    /\ callers[c] = Idle
    /\ calls < MaxCalls
    /\ calls' = calls + 1
    /\ callers' = [callers EXCEPT ![c] = call]
    /\ trip' = [kind |-> "called", ops |-> Append(Called(trip), call.op)]
    /\ UNCHANGED <<db, now, issued, selectedPhotos, photoSelection>>

\* the awaited request of caller c's handler runs
Resume(c, op) ==
    /\ callers[c].op = op
    /\ LET r == StepOf(callers[c], db, now)
       IN  /\ WithinBounds(r.db)
           /\ db' = r.db
           /\ callers' = Observe([callers EXCEPT ![c] = r.c], r.db)
    /\ UNCHANGED <<now, issued, trip, calls, selectedPhotos, photoSelection>>

CallBulkAssignToBuild(c) ==
    \E photoIds \in PhotoIdLists, buildId \in BuildIds :
        Call(c, BulkAssignToBuildCall(photoIds, buildId))

StepBulkAssignToBuild(c) == Resume(c, "bulkAssignToBuild")

CallAssignToBuild(c) ==
    \E photoId \in PhotoIds, buildId \in BuildIds :
        Call(c, AssignToBuildCall(photoId, buildId))

StepAssignToBuild(c) == Resume(c, "assignToBuild")

CallUnassignFromBuild(c) ==
    \E photoId \in PhotoIds : Call(c, UnassignFromBuildCall(photoId))

StepUnassignFromBuild(c) == Resume(c, "unassignFromBuild")

CallPhotoDelete(c) ==
    \E photoId \in PhotoIds : Call(c, PhotoDeleteCall(photoId))

StepPhotoDelete(c) == Resume(c, "photoDelete")

CallBuildDelete(c) ==
    \E id \in BuildIds : Call(c, BuildDeleteCall(id))

StepBuildDelete(c) == Resume(c, "buildDelete")

CallClearAll(c) == Call(c, ClearAllCall)

StepClearAll(c) == Resume(c, "clearAll")

CallExportData(c) == Call(c, ExportDataCall(db))

StepExportData(c) ==
    /\ callers[c].op = "exportData"
    /\ callers[c].pending # <<>>
    /\ callers' = [callers EXCEPT ![c] = ExportDataRead(@, db)]
    /\ UNCHANGED <<db, now, issued, trip, calls, selectedPhotos, photoSelection>>

\* exportData's promise resolves: the caller has the four lists
ReturnExportData(c) ==
    /\ callers[c].op = "exportData"
    /\ callers[c].pending = <<>>
    /\ callers' = [callers EXCEPT ![c] = Idle]
    /\ UNCHANGED <<db, now, issued, trip, calls, selectedPhotos, photoSelection>>

ConcInit ==
    /\ db = SeededDb
    /\ now = 0
    /\ issued = {"b1"}
    /\ trip = NoTrip
    /\ callers = [c \in Callers |-> Idle]
    /\ calls = 0
    /\ selectedPhotos = <<>>
    /\ photoSelection = {}

ConcNext ==
    \E c \in Callers :
          \/ CallBulkAssignToBuild(c)
          \/ StepBulkAssignToBuild(c)
          \/ CallAssignToBuild(c)
          \/ StepAssignToBuild(c)
          \/ CallUnassignFromBuild(c)
          \/ StepUnassignFromBuild(c)
          \/ CallPhotoDelete(c)
          \/ StepPhotoDelete(c)
          \/ CallBuildDelete(c)
          \/ StepBuildDelete(c)
          \/ CallClearAll(c)
          \/ StepClearAll(c)
          \/ CallExportData(c)
          \/ StepExportData(c)
          \/ ReturnExportData(c)

ConcSpec == ConcInit /\ [][ConcNext]_vars

(***************************************************************************)
(* Properties                                                              *)
(***************************************************************************)
NoDuplicates(photos) == Cardinality(PhotoListIds(photos)) = Len(photos)

\* the table holding the records of a list returned by toArray()
TableOf(rows) ==
    [k \in {rows[i].id : i \in 1..Len(rows)} |->
        rows[CHOOSE i \in 1..Len(rows) : rows[i].id = k]]

\* C1: after any sequence of completed operations, for every stored build B the
\* photos whose buildId is B.id are exactly the photos listed in B.photos.
BidirectionalConsistency == Agrees(db.builds, db.photos)

\* C2: after any sequence of completed operations, every photo whose buildId is
\* set names a build that is stored.
NoDanglingBuildId ==
    \A p \in DOMAIN db.photos :
        db.photos[p].buildId # Absent => Has(db.builds, db.photos[p].buildId)

\* C3: buildOperations.delete(id) on a stored build removes the build, and every
\* photo that was assigned to it is still stored, with buildId absent.
DeleteBuildDetachesPhotos ==
    [][\A id \in BuildIds :
          (Has(db.builds, id) /\ BuildDelete(id)) =>
              /\ ~Has(db'.builds, id)
              /\ \A p \in DOMAIN db.photos :
                    db.photos[p].buildId = id =>
                        Has(db'.photos, p) /\ db'.photos[p].buildId = Absent]_vars

\* C4: bulkAssignToBuild(photoIds, buildId) either leaves every listed photo with
\* that buildId and listed in the build's photos, or leaves every photo record and
\* every build record as it was.
BulkAssignAllOrNothing ==
    [][\A photoIds \in PhotoIdLists, buildId \in BuildIds :
          BulkAssignToBuild(photoIds, buildId) =>
              \/ /\ Has(db'.builds, buildId)
                 /\ \A p \in Range(photoIds) :
                       /\ Has(db'.photos, p)
                       /\ db'.photos[p].buildId = buildId
                       /\ p \in PhotoListIds(db'.builds[buildId].photos)
              \/ /\ \A p \in Range(photoIds) : Get(db'.photos, p) = Get(db.photos, p)
                 /\ db'.builds = db.builds]_vars

\* C5: assignToBuild(photoId, buildId) with no stored build of that id changes no
\* photo record and no build record.
AssignToMissingBuildAborts ==
    [][\A photoId \in PhotoIds, buildId \in BuildIds :
          (~Has(db.builds, buildId) /\ AssignToBuild(photoId, buildId)) =>
              db'.photos = db.photos /\ db'.builds = db.builds]_vars

\* C6: after any sequence of completed operations, no build's photos list holds
\* two entries with the same photo id.
NoDuplicatePhotos ==
    \A b \in DOMAIN db.builds : NoDuplicates(db.builds[b].photos)

\* C7: a handler that has written one side of the cross-reference and has further
\* requests to run has not left the store, which agreed before the write, in a
\* state another caller can read where the two sides disagree.
CrossRecordAtomicity ==
    [][\A c \in Callers :
          (/\ callers[c].op \in {"assignToBuild", "unassignFromBuild",
                                 "photoDelete", "buildDelete"}
           /\ callers'[c].op = callers[c].op
           /\ callers'[c] # callers[c]
           /\ Agrees(db.builds, db.photos))
              => Agrees(db'.builds, db'.photos)]_vars

\* C8: for a stored unassigned photo P and a stored build B, assignToBuild(P, B)
\* followed at once by unassignFromBuild(P) leaves P without buildId and B.photos
\* without P, with the same photo ids in B.photos as before the assign.
AssignUnassignRoundTrip ==
    trip.kind = "unassigned" =>
        /\ db.photos[trip.photoId].buildId = Absent
        /\ trip.photoId \notin PhotoListIds(db.builds[trip.buildId].photos)
        /\ PhotoListIds(db.builds[trip.buildId].photos)
              = PhotoListIds(trip.before.builds[trip.buildId].photos)

\* C9: exportData(), then clearAll(), then importData() of the exported snapshot
\* leaves the builds, photos, templates and calendar events stores holding the
\* records they held before the export, field for field.
ExportClearImportRoundTrip ==
    trip.kind = "imported" =>
        /\ db.builds = trip.before.builds
        /\ db.photos = trip.before.photos
        /\ db.contentTemplates = trip.before.contentTemplates
        /\ db.calendarEvents = trip.before.calendarEvents

\* C9 witness: a round trip has completed on a store holding a build with a photo
\* in its list, a template and a calendar event.
ExportClearImportDone ==
    /\ trip.kind = "imported"
    /\ \E b \in DOMAIN trip.before.builds : trip.before.builds[b].photos # <<>>
    /\ \E p \in DOMAIN trip.before.photos : trip.before.photos[p].buildId # Absent
    /\ trip.before.contentTemplates # EmptyTable
    /\ trip.before.calendarEvents # EmptyTable

\* C10: the builds and photos lists exportData returns agree about every assignment
\* whenever the store itself agreed throughout the export.
ExportIsPointInTime ==
    \A c \in Callers :
        (/\ callers[c].op = "exportData"
         /\ callers[c].pending = <<>>
         /\ ~callers[c].disagreed)
            => Agrees(TableOf(callers[c].result.builds),
                      TableOf(callers[c].result.photos))

\* C11: after assignToBuild(P, B) on a stored photo P and a stored build B,
\* getByBuildId(B) returns P and getUnassigned() does not; and in every store no
\* photo is returned both by getUnassigned() and by getByBuildId(B) of a stored B.
AssignedIsListedNotUnassigned ==
    /\ \A b \in DOMAIN db.builds :
          Range(GetByBuildId(db, b)) \cap Range(GetUnassigned(db)) = {}
    /\ trip.kind \in {"assigned", "reassigned"} =>
          /\ trip.photoId \in PhotoListIds(GetByBuildId(db, trip.buildId))
          /\ trip.photoId \notin PhotoListIds(GetUnassigned(db))

\* C11 witness: assignToBuild has just assigned a stored photo to a stored build
\* while another photo is still unassigned.
AssignedWhileOtherUnassigned ==
    /\ trip.kind = "assigned"
    /\ trip.photoId \in PhotoListIds(GetByBuildId(db, trip.buildId))
    /\ GetUnassigned(db) # <<>>

\* C12: after photoOperations.delete(P), P is not in the photo store and no
\* build's photos list holds an entry with P's id.
DeletePhotoDetaches ==
    [][\A photoId \in PhotoIds :
          PhotoDelete(photoId) =>
              /\ ~Has(db'.photos, photoId)
              /\ \A b \in DOMAIN db'.builds :
                    photoId \notin PhotoListIds(db'.builds[b].photos)]_vars

\* every record of the list has a key, no two share one, and none is stored
Insertable(t, recs) ==
    /\ \A i \in 1..Len(recs) : CanAdd(t, recs[i])
    /\ \A i, j \in 1..Len(recs) : recs[i].id = recs[j].id => i = j

\* table u is table t with the records of the list added and nothing else changed
AddedTo(t, recs, u) ==
    /\ DOMAIN u = DOMAIN t \cup {recs[i].id : i \in 1..Len(recs)}
    /\ \A k \in DOMAIN t : u[k] = t[k]
    /\ \A i \in 1..Len(recs) : u[recs[i].id] = recs[i]

NoSilentFailure ==
    [][/\ \A id \in BuildIds, updates \in BuildUpdateInputs :
            (~Has(db.builds, id) /\ BuildUpdateOf(id, updates))
                => BuildUpdateRejects(db, id, updates)
       /\ \A photoId \in PhotoIds, buildId \in BuildIds :
            (/\ ~Has(db.photos, photoId) \/ ~Has(db.builds, buildId)
             /\ AssignToBuild(photoId, buildId))
                => Rejects(AssignToBuildCall(photoId, buildId), db, now)
       /\ \A photoId \in PhotoIds :
            (~Has(db.photos, photoId) /\ UnassignFromBuild(photoId))
                => Rejects(UnassignFromBuildCall(photoId), db, now)
       /\ \A photoIds \in PhotoIdLists, buildId \in BuildIds :
            (/\ ~Has(db.builds, buildId) \/ \E p \in Range(photoIds) : ~Has(db.photos, p)
             /\ BulkAssignToBuild(photoIds, buildId))
                => Rejects(BulkAssignToBuildCall(photoIds, buildId), db, now)
       /\ \A photoId \in PhotoIds, updates \in PhotoUpdateInputs :
            (~Has(db.photos, photoId) /\ PhotoUpdateOf(photoId, updates))
                => PhotoUpdateRejects(db, photoId, updates)]_vars

\* C15: clearAll() empties the builds, photos, postContents, contentTemplates and
\* calendarEvents stores in one step: its only step ends the call with all five
\* stores empty, so no other caller reads a store where some are emptied and
\* others not.
ClearAllIsAtomic ==
    [][\A c \in Callers :
          (callers[c].op = "clearAll" /\ callers'[c] # callers[c])
              => callers'[c] = Idle /\ db' = EmptyDb]_vars

\* C15 witness: clearAll has emptied the seeded store while an exportData of
\* another caller is between two of its reads.
ClearedDuringExport ==
    /\ calls = 2
    /\ db = EmptyDb
    /\ \E c \in Callers :
          /\ callers[c].op = "exportData"
          /\ Len(callers[c].pending) \in 1..3
          /\ callers[c].result.builds # <<>>
    /\ \E c \in Callers : callers[c] = Idle

BuildUpdateFrame ==
    [][\A id \in BuildIds, updates \in BuildUpdateInputs :
          (/\ Has(db.builds, id)
           /\ trip'.kind = "buildUpdated"
           /\ BuildUpdateOf(id, updates)) =>
              /\ DOMAIN db'.builds = DOMAIN db.builds
              /\ \A f \in DOMAIN updates : db'.builds[id][f] = updates[f]
              /\ db'.builds[id].updatedAt = now
              /\ \A f \in DOMAIN db.builds[id] \ (DOMAIN updates \cup {"updatedAt"}) :
                    db'.builds[id][f] = db.builds[id][f]
              /\ db'.builds[id].photos = db.builds[id].photos
              /\ \A b \in DOMAIN db.builds \ {id} : db'.builds[b] = db.builds[b]
              /\ db'.photos = db.photos]_vars

\* C17 witness: buildOperations.update has just run on a store where both build
\* ids are stored, every build lists a photo, and the clock has moved on since
\* a build was created.
BuildUpdatedWithPhotos ==
    /\ trip.kind = "buildUpdated"
    /\ DOMAIN db.builds = BuildIds
    /\ \A b \in BuildIds : db.builds[b].photos # <<>>
    /\ \E b \in BuildIds : db.builds[b].updatedAt > db.builds[b].createdAt

\* C18: buildOperations.create(data) stores one new build under an id that was
\* not stored, with the fields of data, an empty photos list and createdAt equal
\* to updatedAt, returns that id, and leaves every other build and every photo
\* record as they were.
BuildCreateAddsOne ==
    [][\A id \in BuildIds, buildData \in BuildDataInputs :
          (id \notin issued \cup DOMAIN db.builds /\ BuildCreateOf(id, buildData)) =>
              /\ DOMAIN db'.builds = DOMAIN db.builds \cup {id}
              /\ Cardinality(DOMAIN db'.builds) = Cardinality(DOMAIN db.builds) + 1
              /\ \A f \in DOMAIN buildData : db'.builds[id][f] = buildData[f]
              /\ db'.builds[id].id = id
              /\ db'.builds[id].photos = <<>>
              /\ db'.builds[id].createdAt = db'.builds[id].updatedAt
              /\ db'.builds[id].createdAt = now
              /\ trip'.id = id
              /\ \A b \in DOMAIN db.builds : db'.builds[b] = db.builds[b]
              /\ db'.photos = db.photos]_vars

\* C18 witness: buildOperations.create has just returned the id of a new build
\* in a store that already held a build with a photo in its list.
BuildCreatedBesideAnother ==
    /\ trip.kind = "created"
    /\ Has(db.builds, trip.id)
    /\ db.builds[trip.id].photos = <<>>
    /\ \E b \in DOMAIN db.builds \ {trip.id} : db.builds[b].photos # <<>>
    /\ db.photos # EmptyTable

\* the records of a list are those of the table that satisfy Matches, each once
ExactlyThose(rows, t, Matches(_)) ==
    /\ Range(rows) = {t[k] : k \in {x \in DOMAIN t : Matches(t[x])}}
    /\ Cardinality(Range(rows)) = Len(rows)

\* C19: buildOperations.filter(criteria) returns exactly the stored builds whose
\* woodType, style and clientName equal every criterion supplied, a criterion
\* left out being no constraint; so filter({}) returns every stored build.
BuildFilterIsExactConjunction ==
    trip.kind = "buildFilter" =>
        LET Matches(build) ==
                \A f \in DOMAIN trip.filters : Field(build, f) = trip.filters[f]
        IN  /\ ExactlyThose(trip.result, db.builds, Matches)
            /\ trip.filters = [x \in {} |-> x] =>
                  Len(trip.result) = Cardinality(DOMAIN db.builds)

\* C19 witness: filter({woodType: "Maple"}) over a Maple build and an Oak build
\* has returned one build, the Maple one.
MapleOfMapleAndOak ==
    /\ trip.kind = "buildFilter"
    /\ trip.filters = [woodType |-> "Maple"]
    /\ {db.builds[b].woodType : b \in DOMAIN db.builds} = {"Maple", "Oak"}
    /\ Cardinality(DOMAIN db.builds) = 2
    /\ Len(trip.result) = 1
    /\ trip.result[1].woodType = "Maple"

\* C20: photoOperations.filter(criteria) returns exactly the stored photos that
\* satisfy every criterion supplied: buildId equal to the one given; isAssigned
\* true for a photo with a buildId and false for one without; timestamp from
\* dateRange.start to dateRange.end, both included; posted equal to the flag
\* given.  A criterion left out is no constraint.
PhotoFilterIsExactConjunction ==
    trip.kind = "photoFilter" =>
        LET f == trip.filters
            Matches(photo) ==
                /\ "buildId" \in DOMAIN f => photo.buildId = f.buildId
                /\ "isAssigned" \in DOMAIN f =>
                      (f.isAssigned <=> photo.buildId # Absent)
                /\ "dateRange" \in DOMAIN f =>
                      photo.timestamp \in f.dateRange.start..f.dateRange.end
                /\ "posted" \in DOMAIN f => photo.posted = f.posted
        IN  ExactlyThose(trip.result, db.photos, Matches)

\* C20 witness: a filter with all four criteria has returned one of two stored
\* photos, a posted photo of build b1 taken at the very end of the date range.
FilteredByAllFour ==
    /\ trip.kind = "photoFilter"
    /\ DOMAIN trip.filters = {"buildId", "isAssigned", "dateRange", "posted"}
    /\ trip.filters.isAssigned
    /\ trip.filters.posted
    /\ Cardinality(DOMAIN db.photos) = 2
    /\ Len(trip.result) = 1
    /\ trip.result[1].timestamp = trip.filters.dateRange.end

\* C21: getByDateRange(start, end) returns exactly the stored events dated from
\* start to end, both included, and getByDate(d) returns exactly the stored
\* events dated within d's day, from its first millisecond to its last, both
\* included.
CalendarQueriesAreInclusive ==
    /\ trip.kind = "getByDateRange" =>
          LET InRange(event) == trip.start <= event.date /\ event.date <= trip.end
          IN  ExactlyThose(trip.result, db.calendarEvents, InRange)
    /\ trip.kind = "getByDate" =>
          LET SameDay(event) == event.date \div DayLength = trip.date \div DayLength
          IN  ExactlyThose(trip.result, db.calendarEvents, SameDay)

\* C21 witness: getByDate has returned the event dated at the first millisecond
\* of the day and the one dated at its last, and not the event dated one
\* millisecond later.
DayQueryAtBothBoundaries ==
    /\ trip.kind = "getByDate"
    /\ Cardinality(DOMAIN db.calendarEvents) = 3
    /\ \E e \in DOMAIN db.calendarEvents :
          db.calendarEvents[e].date = EndOfDay(trip.date) + 1
    /\ Len(trip.result) = 2
    /\ trip.result[1].date = StartOfDay(trip.date)
    /\ trip.result[2].date = EndOfDay(trip.date)

\* C22: two assignToBuild calls for different photos and the same stored build,
\* however their requests interleave, leave the build's photos list holding both
\* photos once both calls have completed.
NoLostAssignment ==
    (/\ Called(trip) = <<"assignToBuild", "assignToBuild">>
     /\ \A c \in Callers : callers[c] = Idle
     /\ \A p \in PhotoIds : Has(db.photos, p) /\ db.photos[p].buildId = "b1")
        => PhotoListIds(db.builds["b1"].photos) = PhotoIds

\* C23: when a photo P assigned to a stored build B1 is assigned to another
\* stored build B2, by assignToBuild or by bulkAssignToBuild, afterwards
\* P.buildId is B2, B2.photos lists P and B1.photos does not.
ReassignMovesPhoto ==
    [][\A photoId \in PhotoIds, buildId \in BuildIds :
          (/\ Has(db.photos, photoId)
           /\ Has(db.builds, buildId)
           /\ db.photos[photoId].buildId \in DOMAIN db.builds \ {buildId}
           /\ \/ AssignToBuild(photoId, buildId)
              \/ BulkAssignToBuild(<<photoId>>, buildId))
              => /\ db'.photos[photoId].buildId = buildId
                 /\ photoId \in PhotoListIds(db'.builds[buildId].photos)
                 /\ photoId \notin
                       PhotoListIds(db'.builds[db.photos[photoId].buildId].photos)]_vars

\* the store after assignToBuild(id, buildId) for each id of the list, in order
RECURSIVE AssignEach(_, _, _, _)
AssignEach(d, photoIds, buildId, t) ==
    IF photoIds = <<>> THEN d
    ELSE AssignEach(Complete(AssignToBuildCall(Head(photoIds), buildId), d, t),
                    Tail(photoIds), buildId, t)

\* C24: bulkAssignToBuild(photoIds, B) leaves the photo records and B.photos,
\* entries and order, as assignToBuild(id, B) called for each id of the list in
\* order would.
BulkAssignIsAssignEach ==
    [][\A photoIds \in PhotoIdLists, buildId \in BuildIds :
          BulkAssignToBuild(photoIds, buildId) =>
              LET each == AssignEach(db, photoIds, buildId, now)
              IN  /\ db'.photos = each.photos
                  /\ DOMAIN db'.builds = DOMAIN each.builds
                  /\ \A b \in DOMAIN db'.builds :
                        db'.builds[b].photos = each.builds[b].photos]_vars

\* C25: after any sequence of completed operations, every entry of a build's
\* photos list equals, field for field, the stored photo record with its id.
EmbeddedCopiesAreCurrent ==
    \A b \in DOMAIN db.builds :
        \A i \in 1..Len(db.builds[b].photos) :
            LET entry == db.builds[b].photos[i]
            IN  Has(db.photos, entry.id) /\ db.photos[entry.id] = entry

\* C26: within each store no two records share an id (each record is stored
\* under its own id, and a stored id is on record as issued), no id is ever
\* forgotten, and a create returns an id that no record of the run, stored or
\* deleted, has carried.
IdsAreUniqueAndFresh ==
    /\ [](\A store \in DOMAIN db : \A k \in DOMAIN db[store] : db[store][k].id = k)
    /\ [](UuidKeys(db) \subseteq issued)
    /\ [][/\ issued \subseteq issued'
          /\ trip'.kind = "created" => trip'.id \notin issued \cup DOMAIN db.builds
          /\ trip'.kind \notin {"imported", "importDone", "importFailed"} =>
                \A k \in UuidKeys(db') \ UuidKeys(db) : k \notin issued]_vars

CreatedAfterDelete ==
    /\ trip.kind = "created"
    /\ Has(db.builds, trip.id)
    /\ \E id \in issued \cap BuildIds : id # trip.id /\ ~Has(db.builds, id)
    /\ \E id \in issued \cap EventIds : ~Has(db.calendarEvents, id)

\* C27: addFromGoogle(photos) changes no build record and no stored photo, a
\* batch record whose id is stored replaces nothing, every batch record whose id
\* was not stored is stored as given, nothing else is stored, and every record
\* added is returned by getUnassigned().
AddFromGoogleOnlyAppends ==
    [][\A googlePhotos \in GoogleBatches :
          (trip'.kind = "added" /\ AddFromGoogleOf(googlePhotos)) =>
              /\ db'.builds = db.builds
              /\ \A p \in DOMAIN db.photos :
                    Has(db'.photos, p) /\ db'.photos[p] = db.photos[p]
              /\ DOMAIN db'.photos =
                    DOMAIN db.photos \cup {r.id : r \in Range(googlePhotos)}
              /\ \A r \in Range(googlePhotos) :
                    ~Has(db.photos, r.id) =>
                        /\ db'.photos[r.id] = r
                        /\ r \in Range(GetUnassigned(db'))]_vars

AddedBesideStoredAssigned ==
    /\ trip.kind = "added"
    /\ \E p \in trip.refused : db.photos[p].buildId \in DOMAIN db.builds
    /\ \E p \in trip.added : db.photos[p] \in Range(GetUnassigned(db))

\* C28: in every reachable state getUnassigned(), filter({isAssigned: false})
\* and getStats().unassignedPhotos count the same number of photos.
UnassignedNotionsAgree ==
    LET unassigned == Len(GetUnassigned(db))
    IN  /\ Len(PhotoFilterOf(db, [isAssigned |-> FALSE])) = unassigned
        /\ GetStats(db).unassignedPhotos = unassigned

\* C29: unassignFromBuild(id) with no stored photo of that id, or with a photo
\* that has no buildId, leaves every photo and every build record as it was,
\* updatedAt included; and after unassignFromBuild(id) a second call with the
\* same id, at whatever time, leaves the store as the first call left it.
UnassignIsNoOpAndIdempotent ==
    [][\A photoId \in PhotoIds :
          (/\ trip'.kind \in {"unassigned", "nothingToUnassign", "none"}
           /\ UnassignFromBuild(photoId)) =>
              /\ (~Has(db.photos, photoId) \/ ~Truthy(db.photos[photoId].buildId))
                    => db' = db
              /\ \A t \in 0..MaxTime :
                    Complete(UnassignFromBuildCall(photoId), db', t) = db']_vars

UnassignedTwiceAfterTick ==
    /\ trip.kind = "nothingToUnassign"
    /\ trip.again
    /\ \E b \in DOMAIN db.builds : db.builds[b].updatedAt < now

\* C30: after any sequence of handlePhotosSelected, handlePhotoSelect and
\* clearSelectedPhotos calls, no two entries of selectedPhotos have the same
\* id, and every id in photoSelection is the id of an entry of selectedPhotos.
SelectedPhotosAreDistinct ==
    /\ \A i, j \in 1..Len(selectedPhotos) :
          selectedPhotos[i].id = selectedPhotos[j].id => i = j
    /\ photoSelection \subseteq PhotoListIds(selectedPhotos)

====
